---- MODULE Spec2Model ----
(***************************************************************************)
(* A model of the mini-s3 FileStore (src/store/store.go): an HTTP handler  *)
(* that maps PUT / GET / HEAD / DELETE on /<bucket>/<key> to operations on  *)
(* files under a root directory.                                           *)
(*                                                                         *)
(* Representation.                                                         *)
(*  - A string that is split on "/" (a URL path, a key, a file path) is    *)
(*    the sequence of its "/"-separated segments: "/b/k" is <<"","b","k">>,*)
(*    "" is <<"">>.  Concatenating two strings with a "/" between them is  *)
(*    the concatenation of their segment sequences.                        *)
(*  - A byte is a number in 0..MaxByte; 0 is the byte a file hole reads as.*)
(*  - sha256 is an injective incremental fold over the bytes fed to it.    *)
(*  - The filesystem is a tree of directory entries (tree) over inodes     *)
(*    (inodes); a path is looked up from the process's working directory.  *)
(*  - Every request is one entry of procs, numbered in the order in which  *)
(*    the requests start; each system call of a handler is one step.       *)
(*    io.Copy in handlePut writes one byte per step; os.MkdirAll, the read *)
(*    of the whole file in calculateETag and the copy of the file to the   *)
(*    response are one step each.  Requests carry no conditional headers.  *)
(*  - Time is counted in ticks, TicksPerSecond to the second, from the     *)
(*    Unix epoch.  Every write of a behaviour happens at the tick Now; the  *)
(*    objects a behaviour starts with were written at any tick up to Now.  *)
(*  - server is the state of the process: it serves requests until the     *)
(*    shutdown signal, then only finishes the requests in flight, and      *)
(*    exits when they are done or the deadline of the shutdown passes.     *)
(***************************************************************************)
EXTENDS Integers, Sequences, FiniteSets, TLC

VARIABLES tree, inodes, mtimes, procs, server

vars == <<tree, inodes, mtimes, procs, server>>

(***************************************************************************)
(* Bounds of the model.                                                    *)
(***************************************************************************)
\* number of requests of a behaviour of the concurrent specification
NumProcs == 3
\* number of requests that may be in flight together
MaxInFlight == 2
\* largest byte value of a request body
MaxByte == 2
\* longest request body of the sequential specification
MaxLen == 3
\* largest bound of a Range header
MaxRange == 4
\* the tick at which the writes of a behaviour happen
MaxTime == 3

Max(a, b) == IF a > b THEN a ELSE b
Min(a, b) == IF a < b THEN a ELSE b

(***************************************************************************)
(* strings.Trim(path, "/"), strings.SplitN(path, "/", 2) and parsePath.    *)
(***************************************************************************)
RECURSIVE TrimLeft(_)
TrimLeft(s) == IF Len(s) > 1 /\ Head(s) = "" THEN TrimLeft(Tail(s)) ELSE s

RECURSIVE TrimRight(_)
TrimRight(s) ==
    IF Len(s) > 1 /\ s[Len(s)] = "" THEN TrimRight(SubSeq(s, 1, Len(s) - 1)) ELSE s

Trim(s) == TrimRight(TrimLeft(s))

\* a parsePath that does not ask for a key
parsePathNoKey(path) ==
    LET p == Trim(path) IN
    IF p = <<"">> THEN [err |-> "missing bucket and key", bucket |-> "", key |-> <<"">>]
    ELSE [err |-> "", bucket |-> p[1], key |-> Tail(p)]

\* the result of parsePath: err = "" when the path is accepted
parsePath(path) ==
    LET p == Trim(path) IN
    IF p = <<"">> THEN [err |-> "missing bucket and key", bucket |-> "", key |-> <<"">>]
    ELSE IF Len(p) < 2 THEN [err |-> "missing key", bucket |-> "", key |-> <<"">>]
    ELSE IF p[1] = "" THEN [err |-> "empty bucket name", bucket |-> "", key |-> <<"">>]
    ELSE IF Tail(p) = <<"">> THEN [err |-> "empty key name", bucket |-> "", key |-> <<"">>]
    ELSE [err |-> "", bucket |-> p[1], key |-> Tail(p)]

(***************************************************************************)
(* filepath.Join(fs.root, bucket, key): the elements joined with "/" and   *)
(* the result cleaned lexically (filepath.Clean of a relative path: empty  *)
(* and "." segments dropped, ".." removing the segment before it, or kept  *)
(* when there is none).  The cleaned path "." is <<>>.                     *)
(***************************************************************************)
\* NewFileStore("./data")
root == <<".", "data">>

RECURSIVE Clean(_, _)
Clean(in, out) ==
    IF in = <<>> THEN out
    ELSE LET h == Head(in) IN
         IF h = "" \/ h = "." THEN Clean(Tail(in), out)
         ELSE IF h = ".."
              THEN IF out # <<>> /\ out[Len(out)] # ".."
                   THEN Clean(Tail(in), SubSeq(out, 1, Len(out) - 1))
                   ELSE Clean(Tail(in), Append(out, ".."))
              ELSE Clean(Tail(in), Append(out, h))

fullPath(bucket, key) == Clean(root \o <<bucket>> \o key, <<>>)

\* the directory the store keeps its objects under, as a cleaned path
rootDir == Clean(root, <<>>)

IsPrefix(p, q) == Len(p) <= Len(q) /\ SubSeq(q, 1, Len(p)) = p

\* a file path that lies under the store root
UnderRoot(path) == Len(path) > Len(rootDir) /\ IsPrefix(rootDir, path)

(***************************************************************************)
(* The filesystem.  tree maps each existing path to 0 (a directory) or to  *)
(* the number of the inode of a regular file; the working directory and    *)
(* its ancestors (the paths made of ".." only) always exist.  inodes maps   *)
(* each inode that is linked or open to its bytes.                         *)
(***************************************************************************)
Dots(p) == \A i \in 1..Len(p) : p[i] = ".."

Exists(t, p) == Dots(p) \/ p \in DOMAIN t

IsDir(t, p) == Dots(p) \/ (p \in DOMAIN t /\ t[p] = 0)

IsFile(t, p) == p \in DOMAIN t /\ t[p] > 0

ProperPrefixes(p) == {SubSeq(p, 1, n) : n \in 0..(Len(p) - 1)}

Parent(p) == SubSeq(p, 1, Len(p) - 1)

\* the error of walking to the parent of p: "" when every prefix is a directory
WalkErr(t, p) ==
    IF \E q \in ProperPrefixes(p) : IsFile(t, q) THEN "ENOTDIR"
    ELSE IF \E q \in ProperPrefixes(p) : ~Exists(t, q) THEN "ENOENT"
    ELSE ""

HasChild(t, p) == \E q \in DOMAIN t : Len(q) = Len(p) + 1 /\ IsPrefix(p, q)

\* os.MkdirAll(dir): fails when dir or one of its prefixes is a regular file
MkdirAllErr(t, dir) ==
    IF \E n \in 0..Len(dir) : IsFile(t, SubSeq(dir, 1, n)) THEN "ENOTDIR" ELSE ""

MkdirAll(t, dir) ==
    LET new == {q \in {SubSeq(dir, 1, n) : n \in 1..Len(dir)} : ~Exists(t, q)}
    IN  [q \in DOMAIN t \cup new |-> IF q \in DOMAIN t THEN t[q] ELSE 0]

\* os.Create(path) = open(O_RDWR|O_CREATE|O_TRUNC)
CreateErr(t, p) ==
    IF WalkErr(t, p) # "" THEN WalkErr(t, p)
    ELSE IF IsDir(t, p) THEN "EISDIR"
    ELSE ""

\* os.Open(path)
OpenErr(t, p) ==
    IF WalkErr(t, p) # "" THEN WalkErr(t, p)
    ELSE IF ~Exists(t, p) THEN "ENOENT"
    ELSE ""

\* os.Remove(path): unlink, else rmdir
RemoveErr(t, p) ==
    IF WalkErr(t, p) # "" THEN WalkErr(t, p)
    ELSE IF Dots(p) THEN "EBUSY"
    ELSE IF ~Exists(t, p) THEN "ENOENT"
    ELSE IF IsDir(t, p) /\ HasChild(t, p) THEN "ENOTEMPTY"
    ELSE ""

Remove(t, p) ==
    IF RemoveErr(t, p) = "" THEN [q \in DOMAIN t \ {p} |-> t[q]] ELSE t

\* os.IsNotExist(err)
IsNotExist(err) == err = "ENOENT"

\* the number of an unused inode
FreeIno(ino) == CHOOSE i \in 1..(Cardinality(DOMAIN ino) + 1) : i \notin DOMAIN ino

\* the bytes of a file after a write of byte b at offset off
WriteAt(c, off, b) ==
    [i \in 1..Max(Len(c), off + 1) |->
        IF i = off + 1 THEN b ELSE IF i <= Len(c) THEN c[i] ELSE 0]

\* the bytes a read of at most n bytes at offset off returns
ReadAt(c, off, n) ==
    IF off >= Len(c) \/ n <= 0 THEN <<>> ELSE SubSeq(c, off + 1, Min(Len(c), off + n))

(***************************************************************************)
(* sha256 and hex.EncodeToString: the hasher's state after each byte, an   *)
(* injective function of the bytes written to it.                          *)
(***************************************************************************)
HashInit == 0

HashWrite(h, b) == h * (MaxByte + 2) + (b + 1)

RECURSIVE Sha256(_)
Sha256(c) == IF c = <<>> THEN HashInit ELSE HashWrite(Sha256(SubSeq(c, 1, Len(c) - 1)), c[Len(c)])

\* the ETag header of a GET or HEAD: `"` + etag + `"`
Quote(etag) == <<"\"", etag, "\"">>

(***************************************************************************)
(* The Range header.  A header value is [present, prefix, parts]: present  *)
(* is whether the header is non-empty, prefix whether it starts with       *)
(* "bytes=", and parts the "-"-separated parts of what follows the prefix  *)
(* (strings.Split(rangeSpec, "-")).  A part is a sequence of characters:    *)
(* 0..9 are the decimal digits and NonDigit is any other character.         *)
(***************************************************************************)
NonDigit == 10

NoRange == [present |-> FALSE, prefix |-> FALSE, parts |-> <<>>]

\* the header "bytes=<a>-<b>" for parts a and b
BytesRange(a, b) == [present |-> TRUE, prefix |-> TRUE, parts |-> <<a, b>>]

\* strconv.ParseInt(s, 10, 64) of a part without a sign: ok and the value
RECURSIVE Decimal(_)
Decimal(s) == IF s = <<>> THEN 0 ELSE 10 * Decimal(SubSeq(s, 1, Len(s) - 1)) + s[Len(s)]

\* a parse that accepts every non-empty part
ParseIntLenient(s) == [ok |-> s # <<>>, val |-> Decimal(s)]

ParseInt(s) ==
    IF s = <<>> \/ \E i \in 1..Len(s) : s[i] = NonDigit
    THEN [ok |-> FALSE, val |-> 0]
    ELSE [ok |-> TRUE, val |-> Decimal(s)]

\* Content-Range: "bytes */<total>" (start = -1) or "bytes <start>-<end>/<total>"
NoContentRange == [set |-> FALSE, start |-> 0, end |-> 0, total |-> 0]

ContentRange(start, end, total) == [set |-> TRUE, start |-> start, end |-> end, total |-> total]

ContentRangeStar(total) == [set |-> TRUE, start |-> -1, end |-> -1, total |-> total]

(***************************************************************************)
(* Modification times and the Last-Modified header.                        *)
(***************************************************************************)
TicksPerSecond == 2

Now == MaxTime

\* t.UTC().Format(http.TimeFormat): the time in whole seconds
HttpTime(t) == t \div TicksPerSecond

\* no Last-Modified header
NoTime == -1

\* isZeroTime of net/http: the Unix epoch is not sent as Last-Modified
isZeroTime(t) == t = 0

(***************************************************************************)
(* Requests.  procs[p] is the p-th request to start: its method, path,     *)
(* body and Range header, the handler's position (pc) and local variables, *)
(* and the response.  live and fin record the order of events: live is the *)
(* set of requests in flight when p started, fin the number of requests    *)
(* that had finished when p finished, p included (0 while p runs).         *)
(***************************************************************************)
NoResp ==
    [status |-> 0, msg |-> "", etag |-> -1, clen |-> -1, hetag |-> <<>>,
     lastmod |-> NoTime, crange |-> NoContentRange, body |-> <<>>]

IdleProc ==
    [pc |-> "idle", method |-> "", path |-> <<>>, body |-> <<>>, range |-> NoRange,
     live |-> {}, fin |-> 0, fpath |-> <<>>, fd |-> 0, n |-> 0, hash |-> HashInit,
     size |-> 0, mtime |-> 0, resp |-> NoResp]

Procs == 1..NumProcs

Started(p) == procs[p].pc # "idle"

Done(p) == procs[p].pc = "done"

\* a request that was cut off when the process exited
Killed(p) == procs[p].pc = "killed"

InFlight == {p \in Procs : Started(p) /\ ~Done(p) /\ ~Killed(p)}

NumDone == Cardinality({p \in Procs : Done(p)})

\* the server accepts requests, p is the next request to start, and fewer than k
\* requests are in flight
CanStart(p, k) ==
    /\ server = "running"
    /\ procs[p].pc = "idle"
    /\ \A r \in Procs : r < p => Started(r)
    /\ Cardinality(InFlight) < k

NewProc(method, path, body, range) ==
    [IdleProc EXCEPT !.method = method, !.path = path, !.body = body,
                     !.range = range, !.live = InFlight]

\* http.Error(w, msg, code), and the handler's return (the deferred file.Close)
Finish(q, resp) ==
    [q EXCEPT !.pc = "done", !.fd = 0, !.fin = NumDone + 1, !.resp = resp]

HttpError(q, msg, code) ==
    Finish(q, [q.resp EXCEPT !.status = code, !.msg = msg])

\* the inodes that are linked in t or open in ps, with their bytes in ino
Collect(t, ps, ino) ==
    LET linked == {t[q] : q \in DOMAIN t} \ {0}
        open == {ps[p].fd : p \in DOMAIN ps} \ {0, -1}
    IN  [i \in (linked \cup open) \cap DOMAIN ino |-> ino[i]]

\* the modification times of the inodes of ino
Keep(m, ino) == [i \in DOMAIN ino |-> m[i]]

(***************************************************************************)
(* handlePut.                                                              *)
(***************************************************************************)
\* parsePath, fullPath and os.MkdirAll(filepath.Dir(path)), for a request with a
\* path of paths and a body of bodies
handlePut(p, k, paths, bodies) ==
    /\ CanStart(p, k)
    /\ \E path \in paths, body \in bodies :
       LET q == NewProc("PUT", path, body, NoRange)
           pp == parsePath(path)
           fp == fullPath(pp.bucket, pp.key)
       IN  IF pp.err # ""
           THEN /\ procs' = [procs EXCEPT ![p] = HttpError(q, pp.err, 400)]
                /\ UNCHANGED <<tree, inodes, mtimes, server>>
           ELSE IF MkdirAllErr(tree, Parent(fp)) # ""
           THEN /\ procs' = [procs EXCEPT ![p] =
                               HttpError([q EXCEPT !.fpath = fp], "failed to create directory", 500)]
                /\ UNCHANGED <<tree, inodes, mtimes, server>>
           ELSE /\ tree' = MkdirAll(tree, Parent(fp))
                /\ procs' = [procs EXCEPT ![p] = [q EXCEPT !.pc = "put_create", !.fpath = fp]]
                /\ UNCHANGED <<inodes, mtimes, server>>

\* os.Create(path)
PutCreate(p) ==
    /\ procs[p].pc = "put_create"
    /\ LET q == procs[p]
           fp == q.fpath
       IN  IF CreateErr(tree, fp) # ""
           THEN /\ procs' = [procs EXCEPT ![p] = HttpError(q, "failed to create file", 500)]
                /\ UNCHANGED <<tree, inodes, mtimes, server>>
           ELSE LET i == IF IsFile(tree, fp) THEN tree[fp] ELSE FreeIno(inodes)
                    ps == [procs EXCEPT ![p] =
                             [q EXCEPT !.pc = "put_copy", !.fd = i, !.n = 0, !.hash = HashInit]]
                IN  /\ tree' = [x \in DOMAIN tree \cup {fp} |-> IF x = fp THEN i ELSE tree[x]]
                    /\ procs' = ps
                    /\ inodes' = [j \in DOMAIN inodes \cup {i} |-> IF j = i THEN <<>> ELSE inodes[j]]
                    /\ mtimes' = [j \in DOMAIN inodes \cup {i} |-> IF j = i THEN Now ELSE mtimes[j]]
                    /\ UNCHANGED server

\* one round of io.Copy(mw, r.Body): a byte of the body written to the file and the hasher
PutCopy(p) ==
    /\ procs[p].pc = "put_copy"
    /\ procs[p].n < Len(procs[p].body)
    /\ LET q == procs[p]
           b == q.body[q.n + 1]
       IN  /\ inodes' = [inodes EXCEPT ![q.fd] = WriteAt(inodes[q.fd], q.n, b)]
           /\ mtimes' = [mtimes EXCEPT ![q.fd] = Now]
           /\ procs' = [procs EXCEPT ![p] = [q EXCEPT !.n = q.n + 1, !.hash = HashWrite(q.hash, b)]]
    /\ UNCHANGED <<tree, server>>

\* io.Copy returns an error: the client went away or the disk failed before the body's end
PutCopyFail(p) ==
    /\ procs[p].pc = "put_copy"
    /\ procs[p].n < Len(procs[p].body)
    /\ procs' = [procs EXCEPT ![p] = [procs[p] EXCEPT !.pc = "put_cleanup"]]
    /\ UNCHANGED <<tree, inodes, mtimes, server>>

\* os.Remove(path) and the 500 response
PutCleanup(p) ==
    /\ procs[p].pc = "put_cleanup"
    /\ tree' = Remove(tree, procs[p].fpath)
    /\ procs' = [procs EXCEPT ![p] = HttpError(procs[p], "failed to write file", 500)]
    /\ inodes' = Collect(tree', procs', inodes)
    /\ mtimes' = Keep(mtimes, inodes')
    /\ UNCHANGED server

\* io.Copy returns at the body's end: the etag and the 200 response
PutFinish(p) ==
    /\ procs[p].pc = "put_copy"
    /\ procs[p].n = Len(procs[p].body)
    /\ LET q == procs[p]
       IN  procs' = [procs EXCEPT ![p] =
                       Finish(q, [q.resp EXCEPT !.status = 200, !.etag = q.hash])]
    /\ UNCHANGED tree
    /\ inodes' = Collect(tree', procs', inodes)
    /\ mtimes' = Keep(mtimes, inodes')
    /\ UNCHANGED server

(***************************************************************************)
(* handleGet, calculateETag, handleRangeRequest.                           *)
(***************************************************************************)
\* the bytes a read of the open file returns: none from a directory (EISDIR)
FileBytes(q) == IF q.fd > 0 THEN inodes[q.fd] ELSE <<>>

\* the sizes file.Stat() may report for a directory
DirSizes == {0, 1}

\* parsePath, fullPath and os.Open(path), as handleGet and handleHead do them
OpenForRead(p, q, next) ==
    LET pp == parsePath(q.path)
        fp == fullPath(pp.bucket, pp.key)
        err == OpenErr(tree, fp)
    IN  /\ procs' = [procs EXCEPT ![p] =
             IF pp.err # "" THEN HttpError(q, pp.err, 400)
             ELSE IF IsNotExist(err) THEN HttpError([q EXCEPT !.fpath = fp], "404 page not found", 404)
             ELSE IF err # "" THEN HttpError([q EXCEPT !.fpath = fp], "failed to open file", 500)
             ELSE [q EXCEPT !.pc = next, !.fpath = fp,
                            !.fd = IF IsDir(tree, fp) THEN -1 ELSE tree[fp]]]
        /\ UNCHANGED <<tree, inodes, mtimes, server>>

\* file.Stat() and the Content-Length and Last-Modified headers; the model keeps no
\* time for a directory, which reads as modified now
StatFile(p, next) ==
    \E sz \in IF procs[p].fd > 0 THEN {Len(inodes[procs[p].fd])} ELSE DirSizes :
        LET t == IF procs[p].fd > 0 THEN mtimes[procs[p].fd] ELSE Now
        IN
        /\ procs' = [procs EXCEPT ![p] =
                       [procs[p] EXCEPT !.pc = next, !.size = sz, !.mtime = t,
                                        !.resp.clen = sz, !.resp.lastmod = HttpTime(t)]]
        /\ UNCHANGED <<tree, inodes, mtimes, server>>

\* a digest of the file's first byte only
calculateETagOfFirst(q) == IF q.fd > 0 THEN Quote(Sha256(ReadAt(FileBytes(q), 0, 1))) ELSE <<>>

\* calculateETag(file): "" when the read fails
calculateETag(q) == IF q.fd > 0 THEN Quote(Sha256(FileBytes(q))) ELSE <<>>

\* a range check that forgets the file size
RangeNotSatisfiableStartOnly(start, end, fileSize) == start > end

\* start > end || start >= fileSize
RangeNotSatisfiable(start, end, fileSize) == start > end \/ start >= fileSize

\* an end that is never clamped
ClampEndNone(end, fileSize) == end

\* if end >= fileSize { end = fileSize - 1 }
ClampEnd(end, fileSize) == IF end >= fileSize THEN fileSize - 1 ELSE end

\* a content length that is one byte short
ContentLengthShort(start, end) == end - start

\* contentLength := end - start + 1
ContentLength(start, end) == end - start + 1

\* the total of the Content-Range header of a 416 response
TotalSize(fileSize) == fileSize

handleRangeRequest(resp, content, fileSize, range) ==
    IF ~range.prefix
    THEN [resp EXCEPT !.status = 400, !.msg = "invalid range header"]
    ELSE IF Len(range.parts) # 2
    THEN [resp EXCEPT !.status = 400, !.msg = "invalid range format"]
    ELSE LET a == range.parts[1]
             b == range.parts[2]
             start == IF a # <<>> THEN ParseInt(a).val ELSE 0
             end == IF b # <<>> THEN ParseInt(b).val ELSE fileSize - 1
         IN  IF a # <<>> /\ (~ParseInt(a).ok \/ start < 0)
             THEN [resp EXCEPT !.status = 400, !.msg = "invalid range start"]
             ELSE IF b # <<>> /\ (~ParseInt(b).ok \/ end < 0)
             THEN [resp EXCEPT !.status = 400, !.msg = "invalid range end"]
             ELSE IF RangeNotSatisfiable(start, end, fileSize)
             THEN [resp EXCEPT !.status = 416, !.msg = "range not satisfiable",
                               !.crange = ContentRangeStar(TotalSize(fileSize))]
             ELSE LET last == ClampEnd(end, fileSize)
                      contentLength == ContentLength(start, last)
                  IN  [resp EXCEPT !.status = 206,
                                   !.crange = ContentRange(start, last, fileSize),
                                   !.clen = contentLength,
                                   !.body = ReadAt(content, start, contentLength)]

\* http.ServeContent of a regular file without a Range header
ServeContent(resp, content, modtime) ==
    [resp EXCEPT !.status = 200, !.clen = Len(content), !.body = content,
                 !.lastmod = IF isZeroTime(modtime) THEN resp.lastmod ELSE HttpTime(modtime)]

handleGet(p, k, paths, ranges) ==
    /\ CanStart(p, k)
    /\ \E path \in paths, range \in ranges :
          OpenForRead(p, NewProc("GET", path, <<>>, range), "get_stat")

GetStat(p) ==
    /\ procs[p].pc = "get_stat"
    /\ StatFile(p, "get_etag")

GetETag(p) ==
    /\ procs[p].pc = "get_etag"
    /\ procs' = [procs EXCEPT ![p] =
                   [procs[p] EXCEPT !.pc = "get_serve", !.resp.hetag = calculateETag(procs[p])]]
    /\ UNCHANGED <<tree, inodes, mtimes, server>>

\* the Range branch of handleGet
GetRange(p) ==
    /\ procs[p].pc = "get_serve"
    /\ procs[p].range.present
    /\ LET q == procs[p]
       IN  procs' = [procs EXCEPT ![p] =
                       Finish(q, handleRangeRequest(q.resp, FileBytes(q), q.size, q.range))]
    /\ UNCHANGED tree
    /\ inodes' = Collect(tree', procs', inodes)
    /\ mtimes' = Keep(mtimes, inodes')
    /\ UNCHANGED server

\* file.Seek(0, 0) and http.ServeContent
GetServe(p) ==
    /\ procs[p].pc = "get_serve"
    /\ ~procs[p].range.present
    /\ procs[p].fd > 0
    /\ LET q == procs[p]
       IN  procs' = [procs EXCEPT ![p] = Finish(q, ServeContent(q.resp, FileBytes(q), q.mtime))]
    /\ UNCHANGED tree
    /\ inodes' = Collect(tree', procs', inodes)
    /\ mtimes' = Keep(mtimes, inodes')
    /\ UNCHANGED server

\* http.ServeContent of a directory: what Seek(0, SeekEnd) answers depends on the
\* filesystem, so either an error response or headers with no body
GetServeDir(p) ==
    /\ procs[p].pc = "get_serve"
    /\ ~procs[p].range.present
    /\ procs[p].fd = -1
    /\ \E code \in {200, 500} :
          procs' = [procs EXCEPT ![p] =
                      Finish(procs[p], [procs[p].resp EXCEPT !.status = code])]
    /\ UNCHANGED <<tree, inodes, mtimes, server>>

(***************************************************************************)
(* handleHead.                                                             *)
(***************************************************************************)
handleHead(p, k, paths, ranges) ==
    /\ CanStart(p, k)
    /\ \E path \in paths, range \in ranges :
          OpenForRead(p, NewProc("HEAD", path, <<>>, range), "head_stat")

HeadStat(p) ==
    /\ procs[p].pc = "head_stat"
    /\ StatFile(p, "head_etag")

\* calculateETag and w.WriteHeader(http.StatusOK)
HeadETag(p) ==
    /\ procs[p].pc = "head_etag"
    /\ LET q == procs[p]
       IN  procs' = [procs EXCEPT ![p] =
                       Finish(q, [q.resp EXCEPT !.status = 200, !.hetag = calculateETag(q)])]
    /\ UNCHANGED tree
    /\ inodes' = Collect(tree', procs', inodes)
    /\ mtimes' = Keep(mtimes, inodes')
    /\ UNCHANGED server

(***************************************************************************)
(* handleDelete and the default branch of Handler.                         *)
(***************************************************************************)
handleDelete(p, k, paths) ==
    /\ CanStart(p, k)
    /\ \E path \in paths :
       LET q == NewProc("DELETE", path, <<>>, NoRange)
           pp == parsePath(path)
           fp == fullPath(pp.bucket, pp.key)
           err == RemoveErr(tree, fp)
       IN  IF pp.err # ""
           THEN /\ procs' = [procs EXCEPT ![p] = HttpError(q, pp.err, 400)]
                /\ UNCHANGED <<tree, inodes, mtimes, server>>
           ELSE /\ tree' = Remove(tree, fp)
                /\ procs' = [procs EXCEPT ![p] =
                     IF err = "" THEN Finish([q EXCEPT !.fpath = fp], [q.resp EXCEPT !.status = 204])
                     ELSE IF IsNotExist(err)
                     THEN HttpError([q EXCEPT !.fpath = fp], "404 page not found", 404)
                     ELSE HttpError([q EXCEPT !.fpath = fp], "failed to delete file", 500)]
                /\ inodes' = Collect(tree', procs', inodes)
                /\ mtimes' = Keep(mtimes, inodes')
                /\ UNCHANGED server

MethodNotAllowed(p, k, paths) ==
    /\ CanStart(p, k)
    /\ \E path \in paths :
          procs' = [procs EXCEPT ![p] =
                      HttpError(NewProc("POST", path, <<>>, NoRange), "method not allowed", 405)]
    /\ UNCHANGED <<tree, inodes, mtimes, server>>

(***************************************************************************)
(* main: the shutdown of the process and its next start.                   *)
(***************************************************************************)
\* the signal arrives and srv.Shutdown closes the listener
Shutdown ==
    /\ server = "running"
    /\ server' = "shutdown"
    /\ UNCHANGED <<tree, inodes, mtimes, procs>>

\* srv.Shutdown returns nil once no request is in flight, and main returns
ShutdownDone ==
    /\ server = "shutdown"
    /\ InFlight = {}
    /\ server' = "exited"
    /\ UNCHANGED <<tree, inodes, mtimes, procs>>

\* the deadline passes with requests in flight: srv.Shutdown returns the context's
\* error and log.Fatalf exits the process, which ends every handler where it stands
ShutdownTimeout ==
    /\ server = "shutdown"
    /\ InFlight # {}
    /\ server' = "exited"
    /\ procs' = [p \in Procs |->
                   IF p \in InFlight THEN [procs[p] EXCEPT !.pc = "killed", !.fd = 0]
                   ELSE procs[p]]
    /\ UNCHANGED tree
    /\ inodes' = Collect(tree', procs', inodes)
    /\ mtimes' = Keep(mtimes, inodes')

\* the program is started again in the same working directory
main ==
    /\ server = "exited"
    /\ server' = "running"
    /\ UNCHANGED <<tree, inodes, mtimes, procs>>

(***************************************************************************)
(* The requests of the specifications.                                     *)
(***************************************************************************)
\* the concurrent specification: "/b/a", its alias "/b//a", and "/b/a/c" below it
Paths == { <<"", "b", "a">>, <<"", "b", "", "a">>, <<"", "b", "a", "c">> }

Bodies == { <<1, 1>>, <<2>> }

Ranges == { NoRange, BytesRange(<<0>>, <<0>>) }

\* every sequence of at most n bytes
RECURSIVE SeqsUpTo(_, _)
SeqsUpTo(S, n) ==
    IF n = 0 THEN {<<>>}
    ELSE LET r == SeqsUpTo(S, n - 1) IN r \cup {Append(s, x) : s \in r, x \in S}

\* the concurrent specification: an empty working directory, NumProcs requests
Init ==
    /\ tree = << >>
    /\ inodes = << >>
    /\ mtimes = << >>
    /\ procs = [p \in 1..NumProcs |-> IdleProc]
    /\ server = "running"

Next ==
    \E p \in Procs :
        \/ handlePut(p, MaxInFlight, Paths, Bodies)
        \/ PutCreate(p)
        \/ PutCopy(p)
        \/ PutCopyFail(p)
        \/ PutCleanup(p)
        \/ PutFinish(p)
        \/ handleGet(p, MaxInFlight, Paths, Ranges)
        \/ GetStat(p)
        \/ GetETag(p)
        \/ GetRange(p)
        \/ GetServe(p)
        \/ GetServeDir(p)
        \/ handleHead(p, MaxInFlight, Paths, {NoRange})
        \/ HeadStat(p)
        \/ HeadETag(p)
        \/ handleDelete(p, MaxInFlight, Paths)
        \/ MethodNotAllowed(p, MaxInFlight, {<<"", "b", "a">>})

Spec == Init /\ [][Next]_vars

(***************************************************************************)
(* The single-request specification: a store that holds one object, and    *)
(* one request on it, with every body and every Range header of the bounds.*)
(***************************************************************************)
\* "/b/a", "/b/a/c", "/b/x", "/b" (no key), "/b/../../x" (outside the root), "/",
\* "/b/", "//a" (one segment between separators) and "/b//a" (the key "/a")
OnePaths ==
    { <<"", "b", "a">>, <<"", "b", "a", "c">>, <<"", "b", "x">>, <<"", "b">>,
      <<"", "b", "..", "..", "x">>, <<"", "">>, <<"", "b", "">>, <<"", "", "a">>,
      <<"", "b", "", "a">> }

\* the parts of a Range header: empty, a number, or not a number
RangeParts == {<<>>, <<NonDigit>>} \cup {<<d>> : d \in 0..MaxRange}

\* also "0-1" (no prefix), "bytes=0", "bytes=0-1-2", "bytes=-1-2" and "bytes=0--1"
\* (a negative bound), and "bytes=0-0,1-1" (a list of two ranges)
OneRanges ==
    {NoRange} \cup {BytesRange(a, b) : a \in RangeParts, b \in RangeParts}
    \cup { [present |-> TRUE, prefix |-> FALSE, parts |-> <<<<0>>, <<1>>>>],
           [present |-> TRUE, prefix |-> TRUE, parts |-> <<<<0>>>>],
           [present |-> TRUE, prefix |-> TRUE, parts |-> <<<<0>>, <<1>>, <<2>>>>],
           [present |-> TRUE, prefix |-> TRUE, parts |-> <<<<>>, <<1>>, <<2>>>>],
           [present |-> TRUE, prefix |-> TRUE, parts |-> <<<<0>>, <<>>, <<1>>>>],
           [present |-> TRUE, prefix |-> TRUE, parts |-> <<<<0>>, <<0, NonDigit, 1>>, <<1>>>>] }

\* the store with one object of content c, written at tick t, at the file path fp
StoreWith(fp, c, t) ==
    /\ tree = [q \in (ProperPrefixes(fp) \ {<<>>}) \cup {fp} |-> IF q = fp THEN 1 ELSE 0]
    /\ inodes = [i \in {1} |-> c]
    /\ mtimes = [i \in {1} |-> t]

InitOne ==
    /\ \/ \E c \in SeqsUpTo(0..MaxByte, MaxLen) : StoreWith(<<"data", "b", "a">>, c, Now)
       \/ \E t \in 0..MaxTime : StoreWith(<<"data", "b", "a">>, <<1, 2>>, t)
       \/ StoreWith(<<"data", "b", "a", "c">>, <<1>>, Now)
    /\ procs = [p \in Procs |-> IdleProc]
    /\ server = "running"

NextOne ==
    \E p \in {1} :
        \/ handlePut(p, 1, OnePaths, Bodies)
        \/ PutCreate(p)
        \/ PutCopy(p)
        \/ PutCopyFail(p)
        \/ PutCleanup(p)
        \/ PutFinish(p)
        \/ handleGet(p, 1, OnePaths, OneRanges)
        \/ GetStat(p)
        \/ GetETag(p)
        \/ GetRange(p)
        \/ GetServe(p)
        \/ GetServeDir(p)
        \/ handleHead(p, 1, OnePaths, OneRanges)
        \/ HeadStat(p)
        \/ HeadETag(p)
        \/ handleDelete(p, 1, OnePaths)
        \/ MethodNotAllowed(p, 1, OnePaths)

SpecOne == InitOne /\ [][NextOne]_vars

(***************************************************************************)
(* The sequential specification: a store that holds the object "/b/a",     *)
(* and NumProcs requests one after the other, over shutdowns and starts of *)
(* the process.                                                            *)
(***************************************************************************)
InitSeq ==
    /\ StoreWith(<<"data", "b", "a">>, <<1>>, Now)
    /\ procs = [p \in Procs |-> IdleProc]
    /\ server = "running"

NextSeq ==
    \/ \E p \in Procs :
        \/ handlePut(p, 1, Paths, Bodies)
        \/ PutCreate(p)
        \/ PutCopy(p)
        \/ PutCopyFail(p)
        \/ PutCleanup(p)
        \/ PutFinish(p)
        \/ handleGet(p, 1, Paths, Ranges)
        \/ GetStat(p)
        \/ GetETag(p)
        \/ GetRange(p)
        \/ GetServe(p)
        \/ GetServeDir(p)
        \/ handleHead(p, 1, Paths, {NoRange})
        \/ HeadStat(p)
        \/ HeadETag(p)
        \/ handleDelete(p, 1, Paths)
        \/ MethodNotAllowed(p, 1, {<<"", "b", "a">>})
    \/ Shutdown
    \/ ShutdownDone
    \/ ShutdownTimeout
    \/ main

SpecSeq == InitSeq /\ [][NextSeq]_vars

(***************************************************************************)
(* What the claims speak of.                                               *)
(***************************************************************************)
\* the identity a request names: <<bucket, key>> of an accepted path
Valid(p) == Started(p) /\ parsePath(procs[p].path).err = ""

Ident(p) == <<parsePath(procs[p].path).bucket, parsePath(procs[p].path).key>>

\* a finished request of the method
Returned(p, method) == Done(p) /\ procs[p].method = method

\* p finished before q started
Before(p, q) == Done(p) /\ Started(q) /\ p < q /\ p \notin procs[q].live

\* p and q were in flight together
Overlap(p, q) ==
    \/ p < q /\ Started(q) /\ p \in procs[q].live
    \/ q < p /\ Started(p) /\ q \in procs[p].live

\* the bytes of the object at a file path
Object(fp) == IF IsFile(tree, fp) THEN inodes[tree[fp]] ELSE <<>>

\* a Range header "bytes=<a>-<b>" as handleRangeRequest splits it
TwoParts(q) == q.range.present /\ q.range.prefix /\ Len(q.range.parts) = 2

StartOf(q) == ParseInt(q.range.parts[1]).val

EndOf(q) == ParseInt(q.range.parts[2]).val

\* a finished GET of a regular file with the header "bytes=<start>-<end>", both numbers
NumericRangeGet(g) ==
    /\ Returned(g, "GET")
    /\ IsFile(tree, procs[g].fpath)
    /\ TwoParts(procs[g])
    /\ ParseInt(procs[g].range.parts[1]).ok
    /\ ParseInt(procs[g].range.parts[2]).ok

\* the requests that store to or delete the identity of p, other than p and g
OtherWrites(p, g) ==
    {r \in Procs \ {p, g} : Valid(r) /\ procs[r].method \in {"PUT", "DELETE"} /\ Ident(r) = Ident(p)}

\* a PUT that ended with the 500 of a failed body copy
CopyFailed(p) == Returned(p, "PUT") /\ procs[p].resp.msg = "failed to write file"

\* a PUT that answered 200
Stored(p) == Returned(p, "PUT") /\ procs[p].resp.status = 200

(***************************************************************************)
(* C1: a PUT that returns 200, followed by a GET without Range on the same *)
(* identity with no other store or delete on that identity in between,     *)
(* is answered 200 with the PUT's content as body, its length as           *)
(* Content-Length and the PUT's etag (quoted) as ETag.  A store or delete  *)
(* on the identity counts as not in between only when it finished before   *)
(* the PUT started or started after the GET finished.                      *)
(***************************************************************************)
C1_PutThenGet ==
    \A p, g \in Procs :
        ( /\ Stored(p)
          /\ Returned(g, "GET")
          /\ ~procs[g].range.present
          /\ Valid(g)
          /\ Ident(g) = Ident(p)
          /\ Before(p, g)
          /\ \A r \in OtherWrites(p, g) : Before(r, p) \/ Before(g, r) ) =>
            /\ procs[g].resp.status = 200
            /\ procs[g].resp.body = procs[p].body
            /\ procs[g].resp.clen = Len(procs[p].body)
            /\ procs[g].resp.hetag = Quote(procs[p].resp.etag)

(***************************************************************************)
(* C2: a GET never serves a partially written file: the body of a 200      *)
(* answer for a regular file is the complete body of some PUT to the file  *)
(* it read.                                                                *)
(***************************************************************************)
C2_NoPartialRead ==
    \A g \in Procs :
        ( /\ Returned(g, "GET")
          /\ ~procs[g].range.present
          /\ procs[g].resp.status = 200
          /\ procs[g].resp.hetag # <<>> ) =>
            \E w \in Procs :
                /\ Started(w)
                /\ procs[w].method = "PUT"
                /\ procs[w].fpath = procs[g].fpath
                /\ procs[g].resp.body = procs[w].body

(***************************************************************************)
(* C3: once a PUT has failed while copying its body and answered 500, no   *)
(* object exists at its identity: a GET of it finds no file (404).  Stated *)
(* for the case that no request started after the failed PUT answered and  *)
(* every other PUT to the same file finished before the failed one         *)
(* started.                                                                *)
(***************************************************************************)
C3_FailedPutLeavesNothing ==
    \A p \in Procs :
        ( /\ CopyFailed(p)
          /\ \A r \in Procs \ {p} : ~Before(p, r)
          /\ \A r \in Procs \ {p} :
                (Started(r) /\ procs[r].method = "PUT" /\ procs[r].fpath = procs[p].fpath)
                    => Before(r, p) ) =>
            IsNotExist(OpenErr(tree, procs[p].fpath))

(***************************************************************************)
(* C4: when two PUTs to one identity ran concurrently and both answered    *)
(* 200, the object holds exactly the body of the one that finished last.   *)
(* Stated for the case that no third request was made.                     *)
(***************************************************************************)
C4_LastWriterWins ==
    \A p, q \in Procs :
        ( /\ p # q
          /\ Stored(p)
          /\ Stored(q)
          /\ Ident(p) = Ident(q)
          /\ Overlap(p, q)
          /\ procs[q].fin < procs[p].fin
          /\ \A r \in Procs \ {p, q} : ~Started(r) ) =>
            /\ IsFile(tree, procs[p].fpath)
            /\ Object(procs[p].fpath) = procs[p].body

(***************************************************************************)
(* C5: when a PUT answers 200, its etag is the digest of the bytes that    *)
(* the object holds at that moment.  Stated for the case that every        *)
(* request made so far is a PUT to the same identity.                      *)
(***************************************************************************)
C5_EtagOfPersisted ==
    [][\A p \in Procs :
          ( /\ PutFinish(p)
            /\ \A r \in Procs : Started(r) =>
                  (procs[r].method = "PUT" /\ Valid(r) /\ Ident(r) = Ident(p)) ) =>
              /\ IsFile(tree', procs[p].fpath)
              /\ procs'[p].resp.etag = Sha256(inodes'[tree'[procs[p].fpath]])]_vars

(***************************************************************************)
(* C6: two PUTs that ran concurrently to distinct identities, neither      *)
(* losing its body in transit, both answer 200, and each object then       *)
(* holds the body stored to it.  Stated for the case that no third         *)
(* request was made and neither file path lies below the other.            *)
(***************************************************************************)
C6_DistinctIdentities ==
    \A p, q \in Procs :
        ( /\ p # q
          /\ Returned(p, "PUT") /\ Valid(p) /\ ~CopyFailed(p)
          /\ Returned(q, "PUT") /\ Valid(q) /\ ~CopyFailed(q)
          /\ Ident(p) # Ident(q)
          /\ Overlap(p, q)
          /\ ~(IsPrefix(procs[p].fpath, procs[q].fpath) /\ procs[p].fpath # procs[q].fpath)
          /\ ~(IsPrefix(procs[q].fpath, procs[p].fpath) /\ procs[p].fpath # procs[q].fpath)
          /\ \A r \in Procs \ {p, q} : ~Started(r) ) =>
            /\ procs[p].resp.status = 200
            /\ IsFile(tree, procs[p].fpath)
            /\ Object(procs[p].fpath) = procs[p].body

(***************************************************************************)
(* C7: a request whose key resolves outside the store root is rejected     *)
(* and touches nothing there: no file or directory exists outside the      *)
(* root, and a finished PUT of such a path was answered 400.               *)
(***************************************************************************)
C7_NoTraversal ==
    /\ \A path \in DOMAIN tree : path = rootDir \/ UnderRoot(path)
    /\ \A p \in Procs :
          (Returned(p, "PUT") /\ Valid(p) /\ ~UnderRoot(procs[p].fpath))
              => procs[p].resp.status = 400

(***************************************************************************)
(* C8: a GET with Range "bytes=<start>-<end>", 0 <= start <= end < size,   *)
(* answers 206 with exactly the bytes start..end of the object, a          *)
(* Content-Length of end - start + 1 and Content-Range                     *)
(* "bytes start-end/size".                                                 *)
(***************************************************************************)
C8_RangeWithinBounds ==
    \A g \in Procs :
        LET q == procs[g]
            c == Object(q.fpath)
            s == StartOf(q)
            e == EndOf(q)
        IN  (NumericRangeGet(g) /\ 0 <= s /\ s <= e /\ e < Len(c)) =>
                /\ q.resp.status = 206
                /\ Len(q.resp.body) = e - s + 1
                /\ q.resp.body = SubSeq(c, s + 1, e + 1)
                /\ q.resp.clen = e - s + 1
                /\ q.resp.crange = ContentRange(s, e, Len(c))

C8_Witness ==
    \E g \in Procs :
        /\ NumericRangeGet(g)
        /\ 0 < StartOf(procs[g])
        /\ StartOf(procs[g]) < EndOf(procs[g])
        /\ EndOf(procs[g]) < Len(Object(procs[g].fpath))
        /\ procs[g].resp.status = 206
        /\ procs[g].resp.body # <<>>

(***************************************************************************)
(* C9: a GET of an existing object with a range "bytes=<start>-" or        *)
(* "bytes=<start>-<end>" where start > end or start >= size answers 416    *)
(* with Content-Range "bytes */size" and none of the object's bytes.       *)
(***************************************************************************)
C9_RangeNotSatisfiable ==
    \A g \in Procs :
        LET q == procs[g]
            c == Object(q.fpath)
            s == StartOf(q)
        IN  ( /\ Returned(g, "GET")
              /\ IsFile(tree, q.fpath)
              /\ TwoParts(q)
              /\ ParseInt(q.range.parts[1]).ok
              /\ q.range.parts[2] = <<>> \/ ParseInt(q.range.parts[2]).ok
              /\ \/ s >= Len(c)
                 \/ ParseInt(q.range.parts[2]).ok /\ s > EndOf(q) ) =>
                /\ q.resp.status = 416
                /\ q.resp.crange = ContentRangeStar(Len(c))
                /\ q.resp.body = <<>>

C9_Witness ==
    \E g \in Procs :
        /\ NumericRangeGet(g)
        /\ Len(Object(procs[g].fpath)) > 1
        /\ StartOf(procs[g]) >= Len(Object(procs[g].fpath))
        /\ EndOf(procs[g]) > StartOf(procs[g])
        /\ procs[g].resp.status = 416

(***************************************************************************)
(* C10: a GET with a range where start < size, start <= end and            *)
(* end >= size is served: 206 with the bytes from start to the object's    *)
(* last byte and Content-Range "bytes start-(size-1)/size".                *)
(***************************************************************************)
C10_RangeClamped ==
    \A g \in Procs :
        LET q == procs[g]
            c == Object(q.fpath)
            s == StartOf(q)
            e == EndOf(q)
        IN  (NumericRangeGet(g) /\ s < Len(c) /\ s <= e /\ e >= Len(c)) =>
                /\ q.resp.status = 206
                /\ q.resp.body = SubSeq(c, s + 1, Len(c))
                /\ q.resp.clen = Len(c) - s
                /\ q.resp.crange = ContentRange(s, Len(c) - 1, Len(c))

C10_Witness ==
    \E g \in Procs :
        /\ NumericRangeGet(g)
        /\ 0 < StartOf(procs[g])
        /\ StartOf(procs[g]) < Len(Object(procs[g].fpath))
        /\ EndOf(procs[g]) > Len(Object(procs[g].fpath))
        /\ procs[g].resp.status = 206
        /\ procs[g].resp.crange.end = Len(Object(procs[g].fpath)) - 1

(***************************************************************************)
(* C11: a GET of an existing object with a suffix range "bytes=-<end>"     *)
(* (empty start, non-empty end) is rejected with 400: it is never answered *)
(* 206 and none of the object's bytes are served.                          *)
(***************************************************************************)
C11_SuffixRangeRejected ==
    \A g \in Procs :
        LET q == procs[g]
        IN  ( /\ Returned(g, "GET")
              /\ IsFile(tree, q.fpath)
              /\ TwoParts(q)
              /\ q.range.parts[1] = <<>>
              /\ q.range.parts[2] # <<>> ) =>
                /\ q.resp.status = 400
                /\ q.resp.body = <<>>

(***************************************************************************)
(* C12: a GET of an existing object whose Range header lacks the "bytes="  *)
(* prefix, has more or fewer than one "-" after it (a list of ranges, a    *)
(* negative bound), or has a bound that is not a number, is answered 400   *)
(* and none of the object's bytes are served.                              *)
(***************************************************************************)
\* a part made of decimal digits only
IsNumber(s) == s # <<>> /\ \A i \in 1..Len(s) : s[i] \in 0..9

\* a Range header that is not "bytes=<start>-<end>", each bound a number or empty
Malformed(range) ==
    /\ range.present
    /\ \/ ~range.prefix
       \/ Len(range.parts) # 2
       \/ \E i \in 1..Len(range.parts) : range.parts[i] # <<>> /\ ~IsNumber(range.parts[i])

C12_MalformedRangeRejected ==
    \A g \in Procs :
        LET q == procs[g]
        IN  (Returned(g, "GET") /\ IsFile(tree, q.fpath) /\ Malformed(q.range)) =>
                /\ q.resp.status = 400
                /\ q.resp.body = <<>>

C12_Witness ==
    \E g \in Procs :
        /\ Returned(g, "GET")
        /\ Object(procs[g].fpath) # <<>>
        /\ procs[g].range.present
        /\ procs[g].range.prefix
        /\ procs[g].range.parts = <<<<0>>, <<NonDigit>>>>
        /\ procs[g].resp.status = 400
        /\ procs[g].resp.msg = "invalid range end"

(***************************************************************************)
(* C13: after a DELETE answered 204, a GET, HEAD or DELETE of the same     *)
(* identity that starts later is answered 404, unless a PUT to the         *)
(* identity was in progress after the DELETE started and before the later  *)
(* request ended.                                                          *)
(***************************************************************************)
C13_DeleteThenNotFound ==
    \A d, g \in Procs :
        ( /\ Returned(d, "DELETE")
          /\ procs[d].resp.status = 204
          /\ Done(g)
          /\ procs[g].method \in {"GET", "HEAD", "DELETE"}
          /\ Valid(g)
          /\ Ident(g) = Ident(d)
          /\ Before(d, g)
          /\ \A r \in Procs \ {d, g} :
                (Valid(r) /\ procs[r].method = "PUT" /\ Ident(r) = Ident(d))
                    => (Before(r, d) \/ Before(g, r)) ) =>
            procs[g].resp.status = 404

(***************************************************************************)
(* C14: a GET or DELETE of a valid identity that was never stored is       *)
(* answered 404, also when its key is a path prefix of the key of another  *)
(* object.  Stated for the case that no PUT of the behaviour resolves to   *)
(* the file path the request resolves to or to a path above it, and that   *)
(* every other request ended before the GET or DELETE started.             *)
(***************************************************************************)
C14_NeverStoredNotFound ==
    \A g \in Procs :
        ( /\ Done(g)
          /\ procs[g].method \in {"GET", "DELETE"}
          /\ Valid(g)
          /\ \A r \in Procs \ {g} : Started(r) => Before(r, g)
          /\ \A r \in Procs \ {g} :
                (Valid(r) /\ procs[r].method = "PUT")
                    => ~IsPrefix(procs[r].fpath, procs[g].fpath) ) =>
            procs[g].resp.status = 404

(***************************************************************************)
(* C15: a PUT, GET, HEAD or DELETE whose path, stripped of leading and     *)
(* trailing separators, is empty, has one segment only, or has an empty    *)
(* bucket or an empty key, is answered 400 at once and changes no file;    *)
(* every other path is not refused as a path, and resolves to the file of  *)
(* the bucket (its first segment) and the key (all that follows the first  *)
(* separator).                                                             *)
(***************************************************************************)
\* the request p starts in this step
Starts(p) == procs[p].pc = "idle" /\ procs'[p].pc # "idle"

\* a stripped path without a bucket or without a key
InvalidPath(s) == s = <<"">> \/ Len(s) < 2 \/ s[1] = "" \/ Tail(s) = <<"">>

C15_PathValidation ==
    [][\A p \in Procs :
          (Starts(p) /\ procs'[p].method \in {"PUT", "GET", "HEAD", "DELETE"}) =>
              LET q == procs'[p]
                  s == Trim(q.path)
              IN  IF InvalidPath(s)
                  THEN /\ q.pc = "done"
                       /\ q.resp.status = 400
                       /\ q.resp.body = <<>>
                       /\ UNCHANGED <<tree, inodes, mtimes>>
                  ELSE /\ q.resp.status # 400
                       /\ q.fpath = Clean(root \o <<s[1]>> \o Tail(s), <<>>)]_vars

C15_Witness ==
    \E p \in Procs :
        /\ Returned(p, "PUT")
        /\ procs[p].path = <<"", "b", "">>
        /\ procs[p].resp.status = 400
        /\ procs[p].resp.msg = "missing key"
        /\ DOMAIN inodes = {1}

(***************************************************************************)
(* C16: a HEAD of an existing object answers 200 without a body and with   *)
(* the Content-Length (the object's size), ETag and Last-Modified of a GET *)
(* without Range on the same state, whatever its Range header; a HEAD of   *)
(* an identity that holds no object answers 404.                           *)
(***************************************************************************)
\* the headers of a full read from the object at the file path fp
FullHeaders(resp, fp) ==
    /\ resp.clen = Len(Object(fp))
    /\ resp.hetag = Quote(Sha256(Object(fp)))
    /\ resp.lastmod = HttpTime(mtimes[tree[fp]])

C16_HeadLikeGet ==
    \A h \in Procs :
        LET q == procs[h]
        IN  /\ ( /\ Returned(h, "GET")
                 /\ ~q.range.present
                 /\ IsFile(tree, q.fpath) ) =>
                    (q.resp.status = 200 /\ FullHeaders(q.resp, q.fpath))
            /\ ( /\ Returned(h, "HEAD")
                 /\ IsFile(tree, q.fpath) ) =>
                    /\ q.resp.status = 200
                    /\ FullHeaders(q.resp, q.fpath)
                    /\ q.resp.body = <<>>
                    /\ q.resp.crange = NoContentRange
            /\ ( /\ Returned(h, "HEAD")
                 /\ Valid(h)
                 /\ ~IsFile(tree, q.fpath) ) =>
                    q.resp.status = 404

(***************************************************************************)
(* C17: a PUT that is cut off when the deadline of the shutdown passes     *)
(* leaves no half-written file under the object's name: a GET of the       *)
(* identity after the next start is not answered with the part of the body *)
(* that the PUT had written.  Stated for the case that the PUT and the GET *)
(* are the only requests.                                                  *)
(***************************************************************************)
C17_ShutdownLeavesNoPartial ==
    \A p, g \in Procs :
        ( /\ Killed(p)
          /\ procs[p].method = "PUT"
          /\ Returned(g, "GET")
          /\ ~procs[g].range.present
          /\ Valid(g)
          /\ Ident(g) = Ident(p)
          /\ p < g
          /\ \A r \in Procs \ {p, g} : ~Started(r) ) =>
            ~ ( /\ procs[g].resp.status = 200
                /\ procs[p].n < Len(procs[p].body)
                /\ procs[g].resp.body = SubSeq(procs[p].body, 1, procs[p].n) )

(***************************************************************************)
(* C18: the ETag of a 206 answer is the digest of the whole object, the    *)
(* ETag a GET without Range answers on the same state, and not the digest  *)
(* of the bytes served when these are fewer; the body is the span that the *)
(* Content-Range header names.                                             *)
(***************************************************************************)
C18_RangeETagOfWholeObject ==
    \A g \in Procs :
        LET q == procs[g]
            c == Object(q.fpath)
        IN  /\ ( /\ Returned(g, "GET")
                 /\ IsFile(tree, q.fpath)
                 /\ q.resp.status = 206 ) =>
                    /\ q.resp.hetag = Quote(Sha256(c))
                    /\ q.resp.body = SubSeq(c, q.resp.crange.start + 1, q.resp.crange.end + 1)
                    /\ Len(q.resp.body) < Len(c) => q.resp.hetag # Quote(Sha256(q.resp.body))
            /\ ( /\ Returned(g, "GET")
                 /\ IsFile(tree, q.fpath)
                 /\ q.resp.status = 200 ) =>
                    q.resp.hetag = Quote(Sha256(c))

C18_Witness ==
    \E g \in Procs :
        /\ Returned(g, "GET")
        /\ procs[g].resp.status = 206
        /\ procs[g].resp.crange.start = 1
        /\ Len(procs[g].resp.body) = 2
        /\ Len(Object(procs[g].fpath)) = 3
        /\ procs[g].resp.hetag = Quote(Sha256(Object(procs[g].fpath)))

(***************************************************************************)
(* C19: when a PUT answered 200 and another PUT to the same identity, in   *)
(* flight together with it, failed while copying its body, then once both  *)
(* have ended the object exists and holds the body of the PUT that         *)
(* answered 200.  Stated for the case that no third request was made.      *)
(***************************************************************************)
C19_NoLostWrite ==
    \A p, f \in Procs :
        ( /\ Stored(p)
          /\ CopyFailed(f)
          /\ Ident(f) = Ident(p)
          /\ Overlap(p, f)
          /\ \A r \in Procs \ {p, f} : ~Started(r) ) =>
            /\ IsFile(tree, procs[p].fpath)
            /\ Object(procs[p].fpath) = procs[p].body

(***************************************************************************)
(* C20: distinct identities have distinct backing files, so that a PUT or  *)
(* DELETE on one identity does not change what a GET reports for another:  *)
(* a GET of an identity is answered 404 when every other request of the    *)
(* behaviour is a PUT or DELETE on a different identity that ended before  *)
(* the GET started.  Stated for the case that no request resolves to a     *)
(* file path above or below the file path of the GET.                      *)
(***************************************************************************)
\* one of the file paths lies above the other
Nested(fp, fq) == fp # fq /\ (IsPrefix(fp, fq) \/ IsPrefix(fq, fp))

C20_DistinctFiles ==
    \A g \in Procs :
        ( /\ Returned(g, "GET")
          /\ Valid(g)
          /\ \A r \in Procs \ {g} : Started(r) =>
                /\ Valid(r)
                /\ procs[r].method \in {"PUT", "DELETE"}
                /\ Ident(r) # Ident(g)
                /\ Before(r, g)
                /\ ~Nested(procs[r].fpath, procs[g].fpath) ) =>
            procs[g].resp.status = 404

====
